---- MODULE Spec2Model ----
(***************************************************************************)
(* Bulk / scheduled user-operation engine of the Holder bot.               *)
(*                                                                         *)
(* SpecBreaker : the CircuitBreaker class driven by an arbitrary caller.   *)
(* Spec        : one manager (BulkOperationManager or BulkCleanupManager)  *)
(*               making one bulk run against a panel, task by task.        *)
(* SpecLive    : Spec with the event loop's fairness, for termination.     *)
(* SpecTwice   : BulkOperationManager running the same intent MaxRuns      *)
(*               times on the same panel.                                  *)
(* SpecCallback: one bulk run that was given a progress callback, with    *)
(*               page fetches and the callback able to fail.               *)
(* SpecDelay   : the assignment manager's adaptive rate_limit_delay over a  *)
(*               sequence of operations.                                   *)
(* SpecSched   : the CleanupScheduler: its task registry, its loop and     *)
(*               the interactive calls that change the registry.           *)
(* SpecRestart : the CleanupScheduler stopped and started again.           *)
(* SpecRegistry: the scheduler's registry calls with their return values.  *)
(* SpecRequest : one request of the panel client with its retries.         *)
(***************************************************************************)
EXTENDS Integers, Sequences, FiniteSets, TLC

\* ------------------------------------------------------------------ bounds
\* The clock (datetime.now(), in seconds) runs from 0 to MaxTime.
MaxTime == 3
\* CircuitBreaker.__init__ parameters are drawn from 1..MaxThreshold and
\* 1..MaxTimeout.
MaxThreshold == 2
MaxTimeout == 2
\* record_failure() is called while failure_count < MaxFailures.
MaxFailures == 4
\* the managers' batch_size is 1 or MaxBatchSize, their concurrent_limit 1 or
\* MaxConcurrent
MaxBatchSize == 2
MaxConcurrent == 2
\* a batch holds at most MaxBatchSize users x 2 service ids
MaxOps == MaxBatchSize * 2
\* The managers build their breaker with failure_threshold 6 or 5 and
\* recovery_timeout 15 or 30 seconds; the model scales both down (a threshold of 1
\* or RunThreshold, a timeout of RunTimeout), so that the few operations of a run
\* can open the breaker and see it recover.
RunThreshold == 2
RunTimeout == 1
\* a manager makes at most MaxRuns runs of the same intent (SpecTwice)
MaxRuns == 2
\* The scheduler's clock counts periods of its loop's sleep (60 seconds) up to
\* MaxSchedTime; an hour is scaled down from 60 such periods to TicksPerHour, and a
\* task's interval_hours is 1 or MaxInterval.
TicksPerHour == 2
MaxSchedTime == 4
MaxInterval == 2

\* last_failure_time = None
NoTime == -1

VARIABLES
    now,      \* datetime.now()
    cb,       \* the CircuitBreaker object's fields
    call,     \* the caller's view of its last breaker call: op, ret, pre-state, time
    streak    \* the caller's count of record_failure() calls since the last record_success()

VARIABLES
    mode,        \* which manager runs: "assign" (bulk_configs) or "cleanup" (bulk_cleanup)
    intent,      \* the arguments of process_bulk_assignment / process_bulk_cleanup
    mgr,         \* the manager's fields batch_size and concurrent_limit
    panel,       \* the remote panel: per user, whether it exists and its service ids
    run,         \* number of the run in progress (the manager is a module-level singleton)
    pc,          \* where the orchestrator is: "fetch", "batch", "exec", "done", "idle"
    adminIdx,    \* index in admins of the admin being processed
    page,        \* page number of _process_admin_users / _process_admin_cleanup
    processed,   \* results["processed_users"]
    pending,     \* the part of new_users / users_to_delete not yet batched
    userObjs,    \* service_ids of the user objects returned by the current page fetch
    ops,         \* the tasks of the batch in flight
    semaphore,   \* value of the batch's asyncio.Semaphore
    batchSkipped,\* result["skipped"] of the batch in flight
    adminRes,    \* result of _process_admin_users / _process_admin_cleanup
    results,     \* results of process_bulk_assignment / process_bulk_cleanup
    prev,        \* what the previous run returned
    log          \* observer: listings returned, pairs examined, remote calls issued

VARIABLES
    tasks,       \* CleanupScheduler.tasks: the CleanupTask objects, by task id
    servers,     \* the server ids for which crud.get_server returns a server
    loop,        \* where _scheduler_loop is: its pc, its local "now", the items left;
                 \* observer: the tasks due when the pass began, the ones it fired,
                 \* whether it is the first pass after start() loaded the registry
    att,         \* observer: the last execution attempt of the scheduler
    store        \* the content of cleanup_tasks.json: the task dicts, in order

VARIABLES
    delay        \* BulkOperationManager.rate_limit_delay, in microseconds, and the
                 \* observer's count of the operations processed

VARIABLES
    req          \* one call of ApiRequest._request: its position, attempt and result

VARIABLES
    reply        \* observer: the last call of add_task, remove_task, enable_task or
                 \* disable_task and what it returned

breakerVars == <<cb, call, streak>>
schedVars == <<tasks, servers, loop, att, store>>
runVars == <<mode, intent, mgr, panel, run, pc, adminIdx, page, processed, pending,
             userObjs, ops, semaphore, batchSkipped, adminRes, results, prev, log>>
vars == <<now, cb, call, streak, mode, intent, mgr, panel, run, pc, adminIdx, page,
          processed, pending, userObjs, ops, semaphore, batchSkipped, adminRes,
          results, prev, log, tasks, servers, loop, att, store, delay, reply, req>>

\* ------------------------------------------------------- CircuitBreaker
\* CircuitBreaker.__init__
NewBreaker(threshold, timeout) ==
    [failure_threshold |-> threshold,
     recovery_timeout  |-> timeout,
     failure_count     |-> 0,
     last_failure_time |-> NoTime,
     state             |-> "CLOSED"]

\* the OPEN branch's test: last_failure_time and now - last_failure_time > recovery_timeout
RecoveryElapsed(b, t) ==
    /\ b.last_failure_time # NoTime
    /\ t - b.last_failure_time > b.recovery_timeout

\* can_execute with an exclusive probe: HALF_OPEN refuses
CanExecuteReturnExclusive(b, t) ==
    CASE b.state = "CLOSED" -> TRUE
      [] b.state = "OPEN"   -> RecoveryElapsed(b, t)
      [] OTHER              -> FALSE

\* CircuitBreaker.can_execute: the value returned
CanExecuteReturn(b, t) ==
    CASE b.state = "CLOSED" -> TRUE
      [] b.state = "OPEN"   -> RecoveryElapsed(b, t)
      [] OTHER              -> TRUE

\* can_execute that stamps the time of a refusal as a failure
CanExecuteBreakerStampsRefusal(b, t) ==
    IF b.state = "OPEN"
    THEN IF RecoveryElapsed(b, t) THEN [b EXCEPT !.state = "HALF_OPEN"]
         ELSE [b EXCEPT !.last_failure_time = t]
    ELSE b

\* CircuitBreaker.can_execute: the breaker after the call
CanExecuteBreaker(b, t) ==
    IF b.state = "OPEN" /\ RecoveryElapsed(b, t)
    THEN [b EXCEPT !.state = "HALF_OPEN"]
    ELSE b

\* record_success that closes the breaker without resetting failure_count
RecordSuccessKeepsCount(b) == [b EXCEPT !.state = "CLOSED"]

\* CircuitBreaker.record_success
RecordSuccess(b) ==
    [b EXCEPT !.failure_count = 0, !.state = "CLOSED"]

\* record_failure that opens one failure late (> for >=)
RecordFailureOpensLate(b, t) ==
    LET n == b.failure_count + 1
    IN  [b EXCEPT !.failure_count = n,
                  !.last_failure_time = t,
                  !.state = IF n > b.failure_threshold THEN "OPEN" ELSE @]

\* record_failure that opens only when the count equals the threshold (== for >=)
RecordFailureOpensAtExactly(b, t) ==
    LET n == b.failure_count + 1
    IN  [b EXCEPT !.failure_count = n,
                  !.last_failure_time = t,
                  !.state = IF n = b.failure_threshold THEN "OPEN" ELSE @]

\* CircuitBreaker.record_failure
RecordFailure(b, t) ==
    LET n == b.failure_count + 1
    IN  [b EXCEPT !.failure_count = n,
                  !.last_failure_time = t,
                  !.state = IF n >= b.failure_threshold THEN "OPEN" ELSE @]

NoCall == [op |-> "none", ret |-> FALSE, pre |-> "CLOSED", at |-> 0]

\* ------------------------------------------------------------ the panel
\* Usernames, in the order the panel lists them.
UserOrder == <<"u1", "u2", "u3">>
Users == {UserOrder[i] : i \in 1..Len(UserOrder)}
Admins == {"a1", "a2"}
\* The admins under which the panel lists each user: u2 and u3 are returned for both.
Owners == [u \in Users |->
             CASE u = "u1" -> {"a1"}
               [] u = "u2" -> {"a1", "a2"}
               [] OTHER    -> {"a1", "a2"}]
\* The raw status fields of each user (Marzneshin booleans, Marzban status value).
Fields == [u \in Users |->
             CASE u = "u1" -> [activated |-> FALSE, expired |-> TRUE, data_limit_reached |-> FALSE,
                               enabled |-> TRUE, is_active |-> FALSE, status |-> "expired"]
               [] u = "u2" -> [activated |-> TRUE, expired |-> FALSE, data_limit_reached |-> FALSE,
                               enabled |-> TRUE, is_active |-> TRUE, status |-> "active"]
               [] OTHER    -> [activated |-> TRUE, expired |-> FALSE, data_limit_reached |-> TRUE,
                               enabled |-> FALSE, is_active |-> FALSE, status |-> "disabled"]]
\* The service ids of each user when the first run starts.
InitialServices == [u \in Users |->
             CASE u = "u1" -> {}
               [] u = "u2" -> {1}
               [] OTHER    -> {1, 2}]
\* server.size_value, the page size of every listing request
PageSize == 2

RECURSIVE FilterSeq(_, _)
\* the elements of seq that are in set S, in order
FilterSeq(seq, S) ==
    IF seq = <<>> THEN <<>>
    ELSE IF Head(seq) \in S THEN <<Head(seq)>> \o FilterSeq(Tail(seq), S)
         ELSE FilterSeq(Tail(seq), S)

Min(a, b) == IF a < b THEN a ELSE b

\* the panel's listing for one owner: the users that exist and are listed under it
Listing(pan, admin) ==
    FilterSeq(UserOrder, {u \in Users : pan[u].exists /\ admin \in Owners[u]})

\* ClinetManager.get_users(server, page, size, owner_username): one page, empty past the end
GetUsers(pan, admin, p, size) ==
    LET l == Listing(pan, admin)
    IN  SubSeq(l, (p - 1) * size + 1, Min(p * size, Len(l)))

\* -------------------------------------------------------- the managers
ADD_CONFIG == "ADD_CONFIG"
DELETE_CONFIG == "DELETE_CONFIG"
MARZNESHIN == "marzneshin"
MARZBAN == "marzban"
\* the values of ServerTypes the cleanup planner names or comments
ServerTypes == {MARZNESHIN, MARZBAN}
\* a value of server.types that is neither
OTHER_TYPE == "other"

\* results = {...} of process_bulk_assignment / process_bulk_cleanup
NewResults ==
    [total_users |-> 0, operations |-> 0, deleted |-> 0, successful |-> 0,
     failed |-> 0, skipped |-> 0, errors |-> <<>>]

\* the page loop without the processed_users_set test
NewUsersNoDedup(users, seen) == users

RECURSIVE NewUsers(_, _)
\* the loop over a page that keeps the users not yet in processed_users_set
NewUsers(users, seen) ==
    IF users = <<>> THEN <<>>
    ELSE IF Head(users) \in seen THEN NewUsers(Tail(users), seen)
         ELSE <<Head(users)>> \o NewUsers(Tail(users), seen \cup {Head(users)})

SeqSet(s) == {s[i] : i \in 1..Len(s)}

\* the pre-check with the DELETE_CONFIG branch testing "not in"
NeedsUpdateNotIn(action_type, service_id, service_ids) ==
    CASE action_type = ADD_CONFIG    -> service_id \notin service_ids
      [] action_type = DELETE_CONFIG -> service_id \notin service_ids
      [] OTHER                       -> FALSE

\* the pre-check of _process_user_batch: does (user, service_id) need an API call
NeedsUpdate(action_type, service_id, service_ids) ==
    CASE action_type = ADD_CONFIG    -> service_id \notin service_ids
      [] action_type = DELETE_CONFIG -> service_id \in service_ids
      [] OTHER                       -> FALSE

RECURSIVE UserPairs(_, _)
\* for service_id in service_ids, for one user
UserPairs(user, sids) ==
    IF sids = <<>> THEN <<>>
    ELSE <<[user |-> user, service |-> Head(sids)]>> \o UserPairs(user, Tail(sids))

RECURSIVE AllPairs(_, _)
\* for user in users: for service_id in service_ids
AllPairs(users, sids) ==
    IF users = <<>> THEN <<>>
    ELSE UserPairs(Head(users), sids) \o AllPairs(Tail(users), sids)

\* the (user, service) pairs of a batch for which a task is created
PlannedPairs(users, sids, action_type, objs) ==
    LET Needs(p) == NeedsUpdate(action_type, p.service, objs[p.user])
    IN  SelectSeq(AllPairs(users, sids), Needs)

\* the status tags with "disabled" given to the enabled users
UserStatusesEnabledIsDisabled(f, server_type) ==
    IF server_type = MARZNESHIN
    THEN (IF ~f.activated THEN {"inactive"} ELSE {})
         \cup (IF f.expired THEN {"expired"} ELSE {})
         \cup (IF f.data_limit_reached THEN {"limited"} ELSE {})
         \cup (IF f.enabled THEN {"disabled"} ELSE {})
         \cup (IF ~f.is_active THEN {"not_active"} ELSE {})
    ELSE {f.status}

\* BulkCleanupManager._should_delete_user: the status tags of a user
UserStatuses(f, server_type) ==
    IF server_type = MARZNESHIN
    THEN (IF ~f.activated THEN {"inactive"} ELSE {})
         \cup (IF f.expired THEN {"expired"} ELSE {})
         \cup (IF f.data_limit_reached THEN {"limited"} ELSE {})
         \cup (IF ~f.enabled THEN {"disabled"} ELSE {})
         \cup (IF ~f.is_active THEN {"not_active"} ELSE {})
    ELSE {f.status}

\* BulkCleanupManager._should_delete_user
ShouldDeleteUser(f, status_filters, server_type) ==
    UserStatuses(f, server_type) \cap status_filters # {}

\* a task of the batch before it is scheduled
NewOp(user, service) ==
    [user |-> user, service |-> service, pc |-> "wait", ret |-> "none",
     original |-> {}, data |-> {}]

RECURSIVE CountRet(_, _)
\* how many finished tasks returned r
CountRet(os, r) ==
    IF os = <<>> THEN 0
    ELSE (IF Head(os).ret = r THEN 1 ELSE 0) + CountRet(Tail(os), r)

\* the state all run variables have while only the breaker is exercised
IdleRun ==
    /\ mode = "assign"
    /\ intent = [admins |-> <<>>, service_ids |-> <<>>, action_type |-> ADD_CONFIG,
                 status_filters |-> {}, server_type |-> MARZNESHIN,
                 progress_callback |-> FALSE]
    /\ mgr = [batch_size |-> 1, concurrent_limit |-> 1]
    /\ panel = [u \in Users |-> [exists |-> TRUE, service_ids |-> InitialServices[u]]]
    /\ run = 0
    /\ pc = "idle"
    /\ adminIdx = 1
    /\ page = 1
    /\ processed = {}
    /\ pending = <<>>
    /\ userObjs = [u \in Users |-> {}]
    /\ ops = <<>>
    /\ semaphore = 0
    /\ batchSkipped = 0
    /\ adminRes = NewResults
    /\ results = NewResults
    /\ prev = NewResults
    /\ log = [returned |-> {}, first |-> {}, repeats |-> {}, examined |-> <<>>,
              calls |-> <<>>, refused |-> {}, failures |-> 0, raised |-> 0,
              batches |-> 0, sink |-> <<>>, sinkActive |-> 0,
           fetchFailed |-> {}]

\* ------------------------------------------------------- the scheduler
TaskIds == {"t1", "t2"}
ServerIds == {1, 2}
\* the server, admins, status filters and interval a task is created with
TaskConfigs == {[server_id |-> 1, admin_usernames |-> <<"a1">>, status_filters |-> {"expired"},
                 interval_hours |-> 1],
                [server_id |-> 2, admin_usernames |-> <<"a1", "a2">>,
                 status_filters |-> {"disabled"}, interval_hours |-> MaxInterval]}

\* timedelta(hours=h)
Hours(h) == h * TicksPerHour

\* a task id for which no CleanupTask object was made
NoTask ==
    [reg |-> "absent", pos |-> 0, server_id |-> 0, admin_usernames |-> <<>>,
     status_filters |-> {}, interval_hours |-> 0, enabled |-> FALSE,
     last_run |-> NoTime, next_run |-> NoTime, created_at |-> NoTime]

\* CleanupTask(...) as add_task builds it, with __post_init__; reg tells whether the
\* object is in self.tasks and pos is its place in the dict's insertion order
NewTask(pos, cfg, t) ==
    [reg |-> "registered", pos |-> pos, server_id |-> cfg.server_id,
     admin_usernames |-> cfg.admin_usernames, status_filters |-> cfg.status_filters,
     interval_hours |-> cfg.interval_hours, enabled |-> TRUE,
     last_run |-> NoTime, next_run |-> t + Hours(cfg.interval_hours), created_at |-> t]

\* a task object that was removed from the registry and that nothing refers to
GoneTask == [NoTask EXCEPT !.reg = "gone"]

\* the task ids whose objects the loop holds: the items left and the one executing
Held(lp) == {lp.queue[i] : i \in 1..Len(lp.queue)} \cup {lp.cur}

\* the task objects, without the removed ones the loop no longer holds
Collect(ts, lp) ==
    [id \in DOMAIN ts |->
        IF ts[id].reg = "removed" /\ id \notin Held(lp) THEN GoneTask ELSE ts[id]]

\* a datetime.isoformat() that keeps the hour only
IsoFormatHourOnly(t) == [iso |-> (t \div TicksPerHour) * TicksPerHour]

\* datetime.isoformat(): the text of a datetime, which is not a datetime
IsoFormat(t) == [iso |-> t]
\* datetime.fromisoformat()
FromIsoFormat(text) == text.iso
\* JSON null, what None is written as
Null == [null |-> TRUE]

\* CleanupTask.to_dict: asdict() with every datetime replaced by its ISO text; a
\* None last_run is not a datetime and stays None
ToDict(id, task) ==
    LET Text(v) == IF v # NoTime THEN IsoFormat(v) ELSE Null
    IN  [id |-> id, server_id |-> task.server_id, admin_usernames |-> task.admin_usernames,
         status_filters |-> task.status_filters, interval_hours |-> task.interval_hours,
         enabled |-> task.enabled, last_run |-> Text(task.last_run),
         next_run |-> Text(task.next_run), created_at |-> Text(task.created_at)]

\* CleanupTask.__post_init__ at time t: a missing created_at or next_run is filled
PostInit(task, t) ==
    [task EXCEPT !.created_at = IF @ = NoTime THEN t ELSE @,
                 !.next_run = IF @ = NoTime THEN t + Hours(task.interval_hours) ELSE @]

\* CleanupTask.from_dict at time t: the truthy date texts are parsed and the
\* constructor is called with the dict; pos is the place in the loaded registry
FromDict(d, pos, t) ==
    LET Date(v) == IF v # Null THEN FromIsoFormat(v) ELSE NoTime
    IN  PostInit([reg |-> "registered", pos |-> pos, server_id |-> d.server_id,
                  admin_usernames |-> d.admin_usernames,
                  status_filters |-> d.status_filters,
                  interval_hours |-> d.interval_hours, enabled |-> d.enabled,
                  last_run |-> Date(d.last_run), next_run |-> Date(d.next_run),
                  created_at |-> Date(d.created_at)], t)

NoAttempt ==
    [id |-> "none", how |-> "none", at |-> NoTime, enabled |-> FALSE, elapsed |-> FALSE,
     args |-> <<>>]

\* the scheduler before any task is added, its loop about to make its first pass
IdleSched ==
    /\ tasks = [id \in TaskIds |-> NoTask]
    /\ servers = ServerIds
    /\ loop = [pc |-> "sleep", now |-> 0, wakeAt |-> 0, queue |-> <<>>, cur |-> "none",
               due |-> {}, fired |-> <<>>, afterLoad |-> FALSE]
    /\ att = NoAttempt
    /\ store = <<>>

\* rate_limit_delay=0.05 of the module-level bulk_manager, in microseconds
InitialDelay == 50000
\* the 0.02 of "if self.rate_limit_delay > 0.02", in microseconds
DelayFloor == 20000
\* the 0.5 of "if self.rate_limit_delay < 0.5", in microseconds
DelayCeiling == 500000
\* the factors 0.95 and 1.2, in percent
ShrinkPercent == 95
GrowPercent == 120
\* failure_threshold=6 of the assignment manager's breaker
ManagerThreshold == 6

\* no panel request is under way
NoResponse == [kind |-> "none", status |-> 0, body |-> "none"]
IdleRequest ==
    req = [pc |-> "idle", max_retries |-> 0, response_model |-> FALSE, attempt |-> 0,
           sent |-> 0, slept |-> 0, last |-> NoResponse, ret |-> "none"]

\* no registry call was made
IdleReply == reply = [op |-> "none", ret |-> TRUE, turn |-> 0]

\* a manager that has processed no operation
IdleDelay == delay = [rate_limit_delay |-> InitialDelay, calls |-> 0]

\* --------------------------------------------------------- SpecBreaker
InitBreaker ==
    /\ now = 0
    /\ \E th \in 1..MaxThreshold, to \in 1..MaxTimeout : cb = NewBreaker(th, to)
    /\ call = NoCall
    /\ streak = 0
    /\ IdleRun
    /\ IdleSched
    /\ IdleDelay
    /\ IdleReply
    /\ IdleRequest

\* time passes
Tick ==
    /\ UNCHANGED schedVars
    /\ UNCHANGED <<delay, reply, req>>
    /\ now < MaxTime
    /\ now' = now + 1
    /\ UNCHANGED breakerVars
    /\ UNCHANGED runVars

CallCanExecute ==
    /\ UNCHANGED schedVars
    /\ UNCHANGED <<delay, reply, req>>
    /\ cb' = CanExecuteBreaker(cb, now)
    /\ call' = [op |-> "can_execute", ret |-> CanExecuteReturn(cb, now),
                pre |-> cb.state, at |-> now]
    /\ UNCHANGED <<now, streak>>
    /\ UNCHANGED runVars

CallRecordSuccess ==
    /\ UNCHANGED schedVars
    /\ UNCHANGED <<delay, reply, req>>
    /\ cb' = RecordSuccess(cb)
    /\ call' = [op |-> "record_success", ret |-> FALSE,
                pre |-> cb.state, at |-> now]
    /\ streak' = 0
    /\ UNCHANGED now
    /\ UNCHANGED runVars

CallRecordFailure ==
    /\ UNCHANGED schedVars
    /\ UNCHANGED <<delay, reply, req>>
    /\ cb.failure_count < MaxFailures
    /\ cb' = RecordFailure(cb, now)
    /\ call' = [op |-> "record_failure", ret |-> FALSE,
                pre |-> cb.state, at |-> now]
    /\ streak' = streak + 1
    /\ UNCHANGED now
    /\ UNCHANGED runVars

NextBreaker ==
    \/ Tick
    \/ CallCanExecute
    \/ CallRecordSuccess
    \/ CallRecordFailure

SpecBreaker == InitBreaker /\ [][NextBreaker]_vars

\* ------------------------------------------------------------------ Spec
\* admins as selected by the operator: a list without repetitions
AdminLists == {<<"a1">>, <<"a1", "a2">>, <<"a2", "a1">>}
\* service ids as selected by the operator: a list without repetitions
ServiceLists == {<<1>>, <<1, 2>>}
FilterSets == {{"expired"}, {"disabled"}, {"expired", "disabled"}, {"limited", "inactive"}}

\* The observer's log of a run: the usernames the listings returned, under which
\* admin each was returned first, which were returned again, the (user, target)
\* pairs examined with the decision taken, the remote mutations issued, the
\* operations the breaker refused, how many remote mutations failed and how many of
\* those raised, how many batches the batch loop has gone through, the invocations
\* of the progress callback (admin and counters passed) and how many of them have
\* not returned, and the admins a page fetch failed for.
NewLog == [returned |-> {}, first |-> {}, repeats |-> {}, examined |-> <<>>, calls |-> <<>>,
           refused |-> {}, failures |-> 0, raised |-> 0,
           batches |-> 0, sink |-> <<>>, sinkActive |-> 0,
           fetchFailed |-> {}]

\* a call of process_bulk_assignment / process_bulk_cleanup, with or without a
\* progress_callback
InitRun(callback) ==
    /\ now = 0
    /\ \E th \in {1, RunThreshold} : cb = NewBreaker(th, RunTimeout)
    /\ call = NoCall
    /\ streak = 0
    /\ mode \in {"assign", "cleanup"}
    /\ \E al \in AdminLists :
         \/ /\ mode = "assign"
            /\ \E sl \in ServiceLists, at \in {ADD_CONFIG, DELETE_CONFIG} :
                 intent = [admins |-> al, service_ids |-> sl, action_type |-> at,
                           status_filters |-> {}, server_type |-> MARZNESHIN,
                           progress_callback |-> callback]
         \/ /\ mode = "cleanup"
            /\ \E fs \in FilterSets, st \in ServerTypes \cup {OTHER_TYPE} :
                 intent = [admins |-> al, service_ids |-> <<>>, action_type |-> "delete",
                           status_filters |-> fs, server_type |-> st,
                           progress_callback |-> callback]
    /\ \E bs \in {1, MaxBatchSize}, cl \in {1, MaxConcurrent} :
         mgr = [batch_size |-> bs, concurrent_limit |-> cl]
    /\ panel = [u \in Users |-> [exists |-> TRUE, service_ids |-> InitialServices[u]]]
    /\ run = 1
    /\ pc = "fetch"
    /\ adminIdx = 1
    /\ page = 1
    /\ processed = {}
    /\ pending = <<>>
    /\ userObjs = [u \in Users |-> {}]
    /\ ops = <<>>
    /\ semaphore = 0
    /\ batchSkipped = 0
    /\ adminRes = NewResults
    /\ results = NewResults
    /\ prev = NewResults
    /\ log = NewLog
    /\ IdleSched
    /\ IdleDelay
    /\ IdleReply
    /\ IdleRequest

\* a call that passes no progress_callback (the parameter's default None), as the
\* scheduler's _execute_task does
Init == InitRun(FALSE)

\* results[...] += admin_result[...] / result[...] += batch_results[...]
Fold(acc, r) ==
    [acc EXCEPT !.operations = @ + r.operations,
                !.deleted    = @ + r.deleted,
                !.successful = @ + r.successful,
                !.failed     = @ + r.failed,
                !.skipped    = @ + r.skipped,
                !.errors     = @ \o r.errors]

\* the count loop without its "failed" branch
CountResultsNoFailed(m, os, skipped) ==
    LET s == CountRet(os, "success")
    IN  IF m = "assign"
        THEN [NewResults EXCEPT !.operations = s, !.successful = s, !.skipped = skipped]
        ELSE [NewResults EXCEPT !.deleted = s, !.successful = s,
                                !.skipped = CountRet(os, "skipped")]

\* the "Count results" loop of _process_user_batch, in either manager; a result
\* that is an Exception object is counted as failed and its text appended to errors
CountResults(m, os, skipped) ==
    LET s == CountRet(os, "success")
        f == CountRet(os, "failed")
        e == CountRet(os, "exception")
        errs == [k \in 1..e |-> "exception"]
    IN  IF m = "assign"
        THEN [NewResults EXCEPT !.operations = s + f + e, !.successful = s,
                                !.failed = f + e, !.skipped = skipped, !.errors = errs]
        ELSE [NewResults EXCEPT !.deleted = s, !.successful = s, !.failed = f + e,
                                !.skipped = CountRet(os, "skipped"), !.errors = errs]

\* a progress snapshot that carries no counters
SinkSnapshotEmpty(res, done) == NewResults

\* temp_result: a copy of the admin's counters whose total_users is the number of
\* users in processed_users_set
SinkSnapshot(res, done) == [res EXCEPT !.total_users = Cardinality(done)]

\* "if progress_callback: await progress_callback(admin, temp_result)": the call
CallSink(lg, res) ==
    IF intent.progress_callback
    THEN [lg EXCEPT !.sink = Append(@, [admin |-> intent.admins[adminIdx],
                                        counters |-> SinkSnapshot(res, processed)]),
                    !.sinkActive = @ + 1]
    ELSE lg

\* where the batch loop is after a batch: awaiting the callback, or at the next batch
AfterBatch == IF intent.progress_callback THEN "sink" ELSE "batch"

\* "if not users: break": the admin's loop breaks, its result is folded
\* into results, and the next admin starts or the run returns
AdminBreak ==
    /\ results' = [Fold(results, adminRes) EXCEPT !.total_users = Cardinality(processed)]
    /\ adminRes' = NewResults
    /\ IF adminIdx < Len(intent.admins)
       THEN /\ adminIdx' = adminIdx + 1
            /\ pc' = "fetch"
       ELSE /\ adminIdx' = adminIdx
            /\ pc' = "done"
    /\ page' = 1
    /\ UNCHANGED <<processed, pending, userObjs>>

\* the break on a page that lists nobody
AdminDone ==
    /\ AdminBreak
    /\ UNCHANGED log

\* get_users returned users: keep the ones not processed yet; the cleanup manager
\* keeps of those the ones its status filter selects
PageFetched(users) ==
    LET new == NewUsers(users, processed)
        Del(u) == ShouldDeleteUser(Fields[u], intent.status_filters, intent.server_type)
        Examined(u) == [user |-> u, service |-> 0, admin |-> intent.admins[adminIdx],
                        had |-> FALSE, planned |-> Del(u)]
    IN  /\ processed' = processed \cup SeqSet(new)
        /\ userObjs' = [u \in Users |->
                          IF u \in SeqSet(users) THEN panel[u].service_ids ELSE userObjs[u]]
        /\ adminRes' = [adminRes EXCEPT !.total_users = @ + Len(new)]
        /\ pending' = IF mode = "assign" THEN new ELSE SelectSeq(new, Del)
        /\ log' = [log EXCEPT
                     !.returned = @ \cup SeqSet(users),
                     !.first = @ \cup {<<u, intent.admins[adminIdx]>> :
                                         u \in SeqSet(users) \ log.returned},
                     !.repeats = @ \cup (SeqSet(users) \cap log.returned),
                     !.examined = IF mode = "assign" THEN @
                                  ELSE @ \o [i \in 1..Len(new) |-> Examined(new[i])]]
        /\ pc' = "batch"
        /\ UNCHANGED <<results, adminIdx, page>>

\* one iteration of "while True" in _process_admin_users / _process_admin_cleanup
FetchPage ==
    /\ UNCHANGED schedVars
    /\ UNCHANGED <<delay, reply, req>>
    /\ pc = "fetch"
    /\ LET users == GetUsers(panel, intent.admins[adminIdx], page, PageSize)
       IN  IF users = <<>> THEN AdminDone ELSE PageFetched(users)
    /\ UNCHANGED <<now, cb, call, streak, mode, intent, mgr, panel, run, ops,
                   semaphore, batchSkipped, prev>>

\* the batches of the page are exhausted: page += 1
PageDone ==
    /\ UNCHANGED schedVars
    /\ UNCHANGED <<delay, reply, req>>
    /\ pc = "batch"
    /\ pending = <<>>
    /\ page' = page + 1
    /\ pc' = "fetch"
    /\ UNCHANGED <<now, cb, call, streak, mode, intent, mgr, panel, run, adminIdx,
                   processed, pending, userObjs, ops, semaphore, batchSkipped,
                   adminRes, results, prev, log>>

\* a batch loop stepping by batch_size + 1
RestOfSkipsOne(p, batch_size) == SubSeq(p, Min(batch_size, Len(p)) + 2, Len(p))

\* a batch of batch_size + 1 users
BatchOfOneMore(p, batch_size) == SubSeq(p, 1, Min(batch_size + 1, Len(p)))

\* the batch new_users[i:i+batch_size]
BatchOf(p, batch_size) == SubSeq(p, 1, Min(batch_size, Len(p)))
\* what range(0, len(new_users), batch_size) leaves for the next iterations
RestOf(p, batch_size) == SubSeq(p, Min(batch_size, Len(p)) + 1, Len(p))

\* BulkOperationManager._process_user_batch up to asyncio.gather: the pre-filter
\* creates a task per pair that needs an update and counts the others as skipped
PlanAssignBatch ==
    /\ UNCHANGED schedVars
    /\ UNCHANGED <<delay, reply, req>>
    /\ pc = "batch"
    /\ mode = "assign"
    /\ pending # <<>>
    /\ LET batch == BatchOf(pending, mgr.batch_size)
           pairs == AllPairs(batch, intent.service_ids)
           batchTasks == PlannedPairs(batch, intent.service_ids, intent.action_type, userObjs)
           skipped == Len(pairs) - Len(batchTasks)
           Examined(p) == [user |-> p.user, service |-> p.service,
                           admin |-> intent.admins[adminIdx],
                           had |-> p.service \in userObjs[p.user],
                           planned |-> \E i \in 1..Len(batchTasks) :
                                          /\ batchTasks[i].user = p.user
                                          /\ batchTasks[i].service = p.service]
           seen == [log EXCEPT !.examined = @ \o [i \in 1..Len(pairs) |-> Examined(pairs[i])],
                               !.batches = @ + 1]
       IN  /\ pending' = RestOf(pending, mgr.batch_size)
           /\ IF batchTasks = <<>>
              THEN /\ adminRes' = Fold(adminRes, CountResults(mode, <<>>, skipped))
                   /\ log' = CallSink(seen, adminRes')
                   /\ pc' = AfterBatch
                   /\ UNCHANGED <<ops, semaphore, batchSkipped>>
              ELSE /\ ops' = [i \in 1..Len(batchTasks) |-> NewOp(batchTasks[i].user, batchTasks[i].service)]
                   /\ semaphore' = mgr.concurrent_limit
                   /\ batchSkipped' = skipped
                   /\ pc' = "exec"
                   /\ log' = seen
                   /\ UNCHANGED adminRes
    /\ UNCHANGED <<now, cb, call, streak, mode, intent, mgr, panel, run, adminIdx, page,
                   processed, userObjs, results, prev>>

\* BulkCleanupManager._process_user_batch up to asyncio.gather: a task per user
PlanCleanupBatch ==
    /\ UNCHANGED schedVars
    /\ UNCHANGED <<delay, reply, req>>
    /\ pc = "batch"
    /\ mode = "cleanup"
    /\ pending # <<>>
    /\ LET batch == BatchOf(pending, mgr.batch_size)
       IN  /\ pending' = RestOf(pending, mgr.batch_size)
           /\ ops' = [i \in 1..Len(batch) |-> NewOp(batch[i], 0)]
           /\ semaphore' = mgr.concurrent_limit
           /\ batchSkipped' = 0
           /\ log' = [log EXCEPT !.batches = @ + 1]
           /\ pc' = "exec"
    /\ UNCHANGED <<now, cb, call, streak, mode, intent, mgr, panel, run, adminIdx, page,
                   processed, userObjs, adminRes, results, prev>>

\* ---------------------------------------------------- the tasks of a batch
Waiting == {i \in 1..Len(ops) : ops[i].pc = "wait"}
\* the tasks inside "async with semaphore" that have not returned
InFlight == {i \in 1..Len(ops) : ops[i].pc \in {"sleep", "call"}}

\* a semaphore that never blocks
CanAcquireAlways(value) == TRUE

\* asyncio.Semaphore.acquire does not block
CanAcquire(value) == value > 0

\* a refused task that goes on to its sleep and its remote call
RefusedOpSleeps(op) == [op EXCEPT !.pc = "sleep"]

\* a refused task that waits for the breaker to recover and asks again
RefusedOpWaits(op) == [op EXCEPT !.pc = "wait"]

\* if not self.circuit_breaker.can_execute(): return "failed"
RefusedOp(op) == [op EXCEPT !.pc = "done", !.ret = "failed"]

\* limited_task enters "async with semaphore" (waiters are served in order) and the
\* task runs to its first suspension: can_execute() is consulted; when it refuses
\* the task returns "failed" and the semaphore is released, otherwise the task
\* sleeps for the rate-limit delay
Admit ==
    /\ UNCHANGED schedVars
    /\ UNCHANGED <<delay, reply, req>>
    /\ pc = "exec"
    /\ Waiting # {}
    /\ CanAcquire(semaphore)
    /\ LET i == CHOOSE j \in Waiting : \A k \in Waiting : j <= k
       IN  /\ cb' = CanExecuteBreaker(cb, now)
           /\ IF CanExecuteReturn(cb, now)
              THEN /\ ops' = [ops EXCEPT ![i].pc = "sleep"]
                   /\ semaphore' = semaphore - 1
                   /\ UNCHANGED log
              ELSE /\ ops' = [ops EXCEPT ![i] = RefusedOp(@)]
                   /\ semaphore' = semaphore
                   /\ log' = [log EXCEPT !.refused = @ \cup {[user |-> ops[i].user,
                                                             service |-> ops[i].service]}]
    /\ UNCHANGED <<now, call, streak, mode, intent, mgr, panel, run, pc, adminIdx, page,
                   processed, pending, userObjs, batchSkipped, adminRes, results,
                   prev>>

\* user.service_ids.append(service_id) / user.service_ids.remove(service_id)
ApplyChange(action_type, service_id, service_ids) ==
    IF action_type = ADD_CONFIG
    THEN service_ids \cup {service_id}
    ELSE service_ids \ {service_id}

\* the sleep of a task is over. _process_single_user_service copies the user's
\* service ids, changes the user object and sends the modify request, whose payload
\* is built from the object as it is now; _delete_single_user sends the delete request
Wake(i) ==
    /\ UNCHANGED schedVars
    /\ UNCHANGED <<delay, reply, req>>
    /\ pc = "exec"
    /\ i \in 1..Len(ops)
    /\ ops[i].pc = "sleep"
    /\ LET u == ops[i].user
           changed == ApplyChange(intent.action_type, ops[i].service, userObjs[u])
       IN  IF mode = "assign"
           THEN /\ ops' = [ops EXCEPT ![i].pc = "call",
                                      ![i].original = userObjs[u],
                                      ![i].data = changed]
                /\ userObjs' = [userObjs EXCEPT ![u] = changed]
           ELSE /\ ops' = [ops EXCEPT ![i].pc = "call"]
                /\ UNCHANGED userObjs
    /\ log' = [log EXCEPT !.calls = Append(@, [user |-> ops[i].user, service |-> ops[i].service])]
    /\ UNCHANGED <<now, cb, call, streak, mode, intent, mgr, panel, run, pc, adminIdx,
                   page, processed, pending, semaphore, batchSkipped, adminRes,
                   results, prev>>

\* what a remote mutation can do: return a truthy value, return a falsy value, raise
Outcomes == {"ok", "falsy", "raise"}

\* a task whose exception is caught by nobody: its result is the exception
TaskResultUncaught(outcome) ==
    CASE outcome = "ok"    -> "success"
      [] outcome = "falsy" -> "failed"
      [] OTHER             -> "exception"

\* what the task returns to asyncio.gather: "success" if result else "failed", and
\* "failed" from the except branch (limited_task would catch what escaped it)
TaskResult(outcome) ==
    CASE outcome = "ok"    -> "success"
      [] outcome = "falsy" -> "failed"
      [] OTHER             -> "failed"

\* the remote call of task i ends. Success: record_success, the panel holds the
\* change. Falsy: record_failure and (assignment) the user object's service ids are
\* restored. Exception: the except branch records the failure and returns "failed".
\* Leaving "async with semaphore" releases the semaphore. An exception that left the
\* task would leave asyncio.gather(return_exceptions=False) and the run with it.
Complete(i, outcome) ==
    /\ UNCHANGED schedVars
    /\ UNCHANGED <<delay, reply, req>>
    /\ pc = "exec"
    /\ i \in 1..Len(ops)
    /\ ops[i].pc = "call"
    /\ LET u == ops[i].user
       IN  /\ cb' = IF outcome = "ok" THEN RecordSuccess(cb) ELSE RecordFailure(cb, now)
           /\ ops' = [ops EXCEPT ![i].pc = "done", ![i].ret = TaskResult(outcome)]
           /\ pc' = IF TaskResult(outcome) = "exception" THEN "raised" ELSE pc
           /\ panel' = IF outcome # "ok" THEN panel
                       ELSE IF mode = "assign"
                            THEN [panel EXCEPT ![u].service_ids = ops[i].data]
                            ELSE [panel EXCEPT ![u].exists = FALSE]
           /\ userObjs' = IF mode = "assign" /\ outcome = "falsy"
                          THEN [userObjs EXCEPT ![u] = ops[i].original]
                          ELSE userObjs
    /\ semaphore' = semaphore + 1
    /\ log' = [log EXCEPT !.failures = IF outcome = "ok" THEN @ ELSE @ + 1,
                          !.raised = IF outcome = "raise" THEN @ + 1 ELSE @]
    /\ UNCHANGED <<now, call, streak, mode, intent, mgr, run, adminIdx, page,
                   processed, pending, batchSkipped, adminRes, results, prev>>

\* asyncio.gather returned: the results are counted, _process_user_batch returns,
\* the caller adds the batch's result to the admin's and calls the progress callback
FinishBatch ==
    /\ UNCHANGED schedVars
    /\ UNCHANGED <<delay, reply, req>>
    /\ pc = "exec"
    /\ \A i \in 1..Len(ops) : ops[i].pc = "done"
    /\ adminRes' = Fold(adminRes, CountResults(mode, ops, batchSkipped))
    /\ ops' = <<>>
    /\ semaphore' = 0
    /\ batchSkipped' = 0
    /\ log' = CallSink(log, adminRes')
    /\ pc' = AfterBatch
    /\ UNCHANGED <<now, cb, call, streak, mode, intent, mgr, panel, run, adminIdx, page,
                   processed, pending, userObjs, results, prev>>

\* what the progress callback can do: return or raise
SinkOutcomes == {"return", "raise"}

\* the awaited progress callback ends; nothing around the await catches what it
\* raises, so a raise leaves _process_admin_* and the run
SinkReturns(outcome) ==
    /\ UNCHANGED schedVars
    /\ UNCHANGED <<delay, reply, req>>
    /\ pc = "sink"
    /\ log' = [log EXCEPT !.sinkActive = @ - 1]
    /\ pc' = IF outcome = "raise" THEN "aborted" ELSE "batch"
    /\ UNCHANGED <<now, cb, call, streak, mode, intent, mgr, panel, run, adminIdx, page,
                   processed, pending, userObjs, ops, semaphore, batchSkipped,
                   adminRes, results, prev>>

\* how a page fetch can fail: get_users returns a falsy value, or raises
FetchFailures == {"falsy", "raise"}

\* the awaited get_users fails: "if not users: break" ends the admin's pages on a
\* falsy value; nothing around the await or around the loop over the admins
\* catches a raise, which leaves the run
FetchFails(outcome) ==
    /\ UNCHANGED schedVars
    /\ UNCHANGED <<delay, reply, req>>
    /\ pc = "fetch"
    /\ IF outcome = "falsy"
       THEN /\ AdminBreak
            /\ log' = [log EXCEPT !.fetchFailed = @ \cup {intent.admins[adminIdx]}]
       ELSE /\ pc' = "aborted"
            /\ log' = [log EXCEPT !.fetchFailed = @ \cup {intent.admins[adminIdx]}]
            /\ UNCHANGED <<adminRes, results, adminIdx, page, processed, pending, userObjs>>
    /\ UNCHANGED <<now, cb, call, streak, mode, intent, mgr, panel, run, ops,
                   semaphore, batchSkipped, prev>>

\* the same intent is run again on the same manager (bulk_manager / cleanup_manager
\* are module-level objects: the circuit breaker is kept)
Rerun ==
    /\ UNCHANGED schedVars
    /\ UNCHANGED <<delay, reply, req>>
    /\ pc = "done"
    /\ run < MaxRuns
    /\ run' = run + 1
    /\ prev' = results
    /\ results' = NewResults
    /\ adminRes' = NewResults
    /\ adminIdx' = 1
    /\ page' = 1
    /\ processed' = {}
    /\ log' = NewLog
    /\ pc' = "fetch"
    /\ UNCHANGED <<now, cb, call, streak, mode, intent, mgr, panel, pending, userObjs,
                   ops, semaphore, batchSkipped>>

Next ==
    \/ Tick
    \/ FetchPage
    \/ PageDone
    \/ PlanAssignBatch
    \/ PlanCleanupBatch
    \/ Admit
    \/ \E i \in 1..MaxOps : Wake(i)
    \/ \E i \in 1..MaxOps, o \in Outcomes : Complete(i, o)
    \/ FinishBatch

Spec == Init /\ [][Next]_vars

\* The run on an event loop that keeps running whichever coroutine is ready: as
\* long as a step of the run is possible, one is taken. Time need not pass.
NextRun ==
    \/ FetchPage
    \/ PageDone
    \/ PlanAssignBatch
    \/ PlanCleanupBatch
    \/ Admit
    \/ \E i \in 1..MaxOps : Wake(i)
    \/ \E i \in 1..MaxOps, o \in Outcomes : Complete(i, o)
    \/ FinishBatch

\* a breaker that opens at the first failure, so that runs go on while it is OPEN
InitLive ==
    /\ Init
    /\ cb.failure_threshold = 1

SpecLive == InitLive /\ [][Next]_vars /\ WF_vars(NextRun)

\* ------------------------------------------------------------ SpecTwice
\* The assignment manager runs the same intent MaxRuns times.
InitTwice ==
    /\ Init
    /\ mode = "assign"

NextTwice ==
    \/ Tick
    \/ FetchPage
    \/ PageDone
    \/ PlanAssignBatch
    \/ Admit
    \/ \E i \in 1..MaxOps : Wake(i)
    \/ \E i \in 1..MaxOps, o \in Outcomes : Complete(i, o)
    \/ FinishBatch
    \/ Rerun

SpecTwice == InitTwice /\ [][NextTwice]_vars

\* ------------------------------------- a run with a progress callback
\* The interactive handlers' call: a progress_callback is passed, and the page
\* fetches and the callback can fail.
InitCallback ==
    /\ InitRun(TRUE)
    /\ mgr.concurrent_limit = 1

NextCallback ==
    \/ Tick
    \/ FetchPage
    \/ PageDone
    \/ PlanAssignBatch
    \/ PlanCleanupBatch
    \/ Admit
    \/ \E i \in 1..MaxOps : Wake(i)
    \/ \E i \in 1..MaxOps, o \in Outcomes : Complete(i, o)
    \/ FinishBatch
    \/ \E o \in SinkOutcomes : SinkReturns(o)
    \/ \E o \in FetchFailures : FetchFails(o)

SpecCallback == InitCallback /\ [][NextCallback]_vars

\* ------------------------------------------ the adaptive rate-limit delay
\* The assignment manager processing operations one after the other: what each
\* does to the breaker and to rate_limit_delay.
MaxCalls == 20

\* "if self.rate_limit_delay > 0.02: self.rate_limit_delay *= 0.95"
DelayAfterSuccess(d) == IF d > DelayFloor THEN (d * ShrinkPercent) \div 100 ELSE d

\* "if self.rate_limit_delay < 0.5: self.rate_limit_delay *= 1.2"
DelayAfterFailure(d) == IF d < DelayCeiling THEN (d * GrowPercent) \div 100 ELSE d

InitDelay ==
    /\ now = 0
    /\ cb = NewBreaker(ManagerThreshold, RunTimeout)
    /\ call = NoCall
    /\ streak = 0
    /\ IdleRun
    /\ IdleSched
    /\ IdleDelay
    /\ IdleReply
    /\ IdleRequest

\* _process_single_user_service: refused by the breaker, or modify_user returns a
\* truthy or a falsy result (the breaker and the delay are updated), or it raises
\* (the except branch records the failure and leaves the delay)
SingleOperation(outcome) ==
    /\ delay.calls < MaxCalls
    /\ LET allowed == CanExecuteReturn(cb, now)
           asked == CanExecuteBreaker(cb, now)
           d == delay.rate_limit_delay
       IN  /\ cb' = IF ~allowed THEN asked
                    ELSE IF outcome = "ok" THEN RecordSuccess(asked)
                    ELSE RecordFailure(asked, now)
           /\ delay' = [rate_limit_delay |->
                            IF ~allowed \/ outcome = "raise" THEN d
                            ELSE IF outcome = "ok" THEN DelayAfterSuccess(d)
                            ELSE DelayAfterFailure(d),
                        calls |-> delay.calls + 1]
    /\ UNCHANGED <<now, call, streak, runVars, schedVars, reply, req>>

NextDelay ==
    \/ Tick
    \/ \E o \in Outcomes : SingleOperation(o)

SpecDelay == InitDelay /\ [][NextDelay]_vars

\* ------------------------------------------------------------ SpecSched
\* The CleanupScheduler: its registry, its loop and the interactive calls on it.
InitSched ==
    /\ now = 0
    /\ cb = NewBreaker(RunThreshold, RunTimeout)
    /\ call = NoCall
    /\ streak = 0
    /\ IdleRun
    /\ IdleSched
    /\ IdleDelay
    /\ IdleReply
    /\ IdleRequest

\* time passes; a sleeping loop whose sleep is over runs before the clock moves on
SchedTick ==
    /\ now < MaxSchedTime
    /\ ~(loop.pc = "sleep" /\ now >= loop.wakeAt)
    /\ now' = now + 1
    /\ UNCHANGED <<delay, reply, req, breakerVars, runVars, schedVars>>

Registered(ts) == {id \in TaskIds : ts[id].reg = "registered"}

RECURSIVE ByPos(_, _)
\* the task ids in ids in the order their objects were inserted
ByPos(ts, ids) ==
    IF ids = {} THEN <<>>
    ELSE LET first == CHOOSE i \in ids : \A j \in ids : ts[i].pos <= ts[j].pos
         IN  <<first>> \o ByPos(ts, ids \ {first})

\* list(self.tasks.items())
Items(ts) == ByPos(ts, Registered(ts))

\* save_tasks that leaves the disabled tasks out of the file
SaveEnabledOnly(ts) ==
    LET ids == ByPos(ts, {id \in Registered(ts) : ts[id].enabled})
    IN  [i \in 1..Len(ids) |-> ToDict(ids[i], ts[ids[i]])]

\* save_tasks: the dict of every task of self.tasks, in the registry's order
SaveTasks(ts) ==
    LET ids == Items(ts)
    IN  [i \in 1..Len(ids) |-> ToDict(ids[i], ts[ids[i]])]

\* load_tasks at time t: self.tasks = {} and a CleanupTask per dict of the file
LoadTasks(file, ts, t) ==
    [id \in TaskIds |->
        IF \E i \in 1..Len(file) : file[i].id = id
        THEN LET i == CHOOSE k \in 1..Len(file) : file[k].id = id
             IN  FromDict(file[i], i, t)
        ELSE IF ts[id].reg = "absent" THEN NoTask ELSE GoneTask]

\* add_task changed to register the task before it looks the server up
AddTaskRegistersFirst(id, cfg) ==
    /\ tasks[id].reg = "absent"
    /\ tasks' = [tasks EXCEPT ![id] =
                    NewTask(Cardinality({t \in TaskIds : tasks[t].reg # "absent"}) + 1,
                            cfg, now)]
    /\ store' = IF cfg.server_id \in servers THEN SaveTasks(tasks') ELSE store
    /\ UNCHANGED <<now, delay, req, breakerVars, runVars, servers, loop, att>>

\* add_task with a new task id: False when the server does not exist, else the task
\* is put in the registry and the registry is saved
AddTask(id, cfg) ==
    /\ tasks[id].reg = "absent"
    /\ IF cfg.server_id \in servers
       THEN /\ tasks' = [tasks EXCEPT ![id] =
                        NewTask(Cardinality({t \in TaskIds : tasks[t].reg # "absent"}) + 1,
                                cfg, now)]
            /\ store' = SaveTasks(tasks')
       ELSE UNCHANGED <<tasks, store>>
    /\ UNCHANGED <<now, delay, req, breakerVars, runVars, servers, loop, att>>

\* remove_task: del self.tasks[task_id]; the loop may still hold the object
RemoveTask(id) ==
    /\ IF tasks[id].reg = "registered"
       THEN /\ tasks' = Collect([tasks EXCEPT ![id].reg = "removed"], loop)
            /\ store' = SaveTasks(tasks')
       ELSE UNCHANGED <<tasks, store>>
    /\ UNCHANGED <<now, delay, req, breakerVars, runVars, servers, loop, att>>

\* next_run one interval after the previous next_run
NextRunFromOld(task, t) == task.next_run + Hours(task.interval_hours)

\* datetime.now() + timedelta(hours=task.interval_hours)
NextRunAfter(task, t) == t + Hours(task.interval_hours)

\* an enable_task that also reschedules the task from the current time
SetEnabledReschedules(id, flag) ==
    /\ IF tasks[id].reg = "registered"
       THEN /\ tasks' = [tasks EXCEPT ![id].enabled = flag,
                                      ![id].next_run = IF flag THEN NextRunAfter(tasks[id], now)
                                                       ELSE @]
            /\ store' = SaveTasks(tasks')
            /\ loop' = IF flag \/ loop.pc \in {"sleep", "stopped"} THEN loop
                       ELSE [loop EXCEPT !.due = @ \ {id}]
       ELSE UNCHANGED <<tasks, store, loop>>
    /\ UNCHANGED <<now, delay, req, breakerVars, runVars, servers, att>>

\* enable_task / disable_task
SetEnabled(id, flag) ==
    /\ IF tasks[id].reg = "registered"
       THEN /\ tasks' = [tasks EXCEPT ![id].enabled = flag]
            /\ store' = SaveTasks(tasks')
            /\ loop' = IF flag \/ loop.pc \in {"sleep", "stopped"} THEN loop
                       ELSE [loop EXCEPT !.due = @ \ {id}]
       ELSE UNCHANGED <<tasks, store, loop>>
    /\ UNCHANGED <<now, delay, req, breakerVars, runVars, servers, att>>

\* a server is deleted from the database: crud.get_server returns None for it
DeleteServer(server_id) ==
    /\ server_id \in servers
    /\ servers' = servers \ {server_id}
    /\ UNCHANGED <<now, delay, reply, req, breakerVars, runVars, tasks, loop, att, store>>

\* a due test with "now > task.next_run"
ShouldExecuteStrictlyAfter(task, t) ==
    /\ task.enabled
    /\ task.next_run # NoTime /\ t > task.next_run

\* a due test that looks at next_run only
ShouldExecuteDisabledToo(task, t) ==
    task.next_run # NoTime /\ t >= task.next_run

\* the tests of the for loop: the task is enabled, has a next_run and it is reached
ShouldExecute(task, t) ==
    /\ task.enabled
    /\ task.next_run # NoTime /\ t >= task.next_run

RECURSIVE SkipToDue(_, _, _)
\* what is left of the items from the first task the for loop executes
SkipToDue(q, ts, t) ==
    IF q = <<>> THEN <<>>
    ELSE IF ShouldExecute(ts[Head(q)], t) THEN q
         ELSE SkipToDue(Tail(q), ts, t)

\* the for loop runs over the items q with its local now t, up to the await of
\* _execute_task for the first task it finds due, or to asyncio.sleep(60)
\* (due and fired are the observer's: the tasks due when the pass began and the
\* tasks the pass has fired)
Scan(q, t, due, fired) ==
    LET rest == SkipToDue(q, tasks, t)
    IN  /\ IF rest = <<>>
           THEN /\ loop' = [pc |-> "sleep", now |-> 0, wakeAt |-> now + 1, queue |-> <<>>,
                            cur |-> "none", due |-> {}, fired |-> <<>>, afterLoad |-> FALSE]
                /\ UNCHANGED att
           ELSE /\ loop' = [pc |-> "get_server", now |-> t, wakeAt |-> loop.wakeAt,
                            queue |-> Tail(rest), cur |-> Head(rest),
                            due |-> due, fired |-> Append(fired, Head(rest)),
                            afterLoad |-> loop.afterLoad]
                /\ att' = [id |-> Head(rest), how |-> "fired", at |-> NoTime,
                           enabled |-> tasks[Head(rest)].enabled,
                           elapsed |-> now >= tasks[Head(rest)].next_run,
                           args |-> <<>>]
        /\ tasks' = Collect(tasks, loop')

\* the registered tasks that are enabled and whose next_run is reached at time t
DueAt(ts, t) ==
    {id \in Registered(ts) : ts[id].enabled /\ ts[id].next_run # NoTime
                                /\ t >= ts[id].next_run}

\* the sleep is over: now = datetime.now() and the for loop starts on the items
LoopPass ==
    /\ loop.pc = "sleep"
    /\ now >= loop.wakeAt
    /\ Scan(Items(tasks), now, DueAt(tasks, now), <<>>)
    /\ UNCHANGED <<now, delay, reply, req, breakerVars, runVars, servers, store>>

\* _execute_task returned: the for loop goes on with the items left
LoopContinue ==
    /\ loop.pc = "scan"
    /\ Scan(loop.queue, loop.now, loop.due, loop.fired)
    /\ UNCHANGED <<now, delay, reply, req, breakerVars, runVars, servers, store>>

\* _execute_task: crud.get_server returned. Without a server the task returns
\* at once; with one it calls process_bulk_cleanup with the task's fields
ExecGetServer ==
    /\ loop.pc = "get_server"
    /\ LET task == tasks[loop.cur]
       IN  IF task.server_id \in servers
           THEN /\ loop' = [loop EXCEPT !.pc = "cleanup"]
                /\ att' = [att EXCEPT !.how = "running", !.at = now,
                                      !.args = <<task.server_id, task.admin_usernames,
                                                 task.status_filters>>]
           ELSE /\ loop' = [loop EXCEPT !.pc = "scan", !.cur = "none"]
                /\ att' = [att EXCEPT !.how = "no_server", !.at = now]
    /\ tasks' = Collect(tasks, loop')
    /\ UNCHANGED <<now, delay, reply, req, breakerVars, runVars, servers, store>>

\* _execute_task: process_bulk_cleanup returned (last_run and next_run are set) or
\* raised (the except branch sets next_run); the tasks are saved
ExecCleanup(outcome) ==
    /\ loop.pc = "cleanup"
    /\ loop' = [loop EXCEPT !.pc = "scan", !.cur = "none"]
    /\ LET task == tasks[loop.cur]
           done == IF outcome = "return"
                   THEN [task EXCEPT !.last_run = now, !.next_run = NextRunAfter(task, now)]
                   ELSE [task EXCEPT !.next_run = NextRunAfter(task, now)]
       IN  tasks' = Collect([tasks EXCEPT ![loop.cur] = done], loop')
    /\ store' = SaveTasks(tasks')
    /\ att' = [att EXCEPT !.how = IF outcome = "return" THEN "ok" ELSE "raised", !.at = now]
    /\ UNCHANGED <<now, delay, reply, req, breakerVars, runVars, servers>>

\* stop() while the loop is suspended in asyncio.sleep, in crud.get_server or in
\* process_bulk_cleanup: the loop's task is cancelled, CancelledError is raised at
\* that await, passes "except Exception" of _execute_task and ends the loop at
\* "except asyncio.CancelledError: break"; then the registry is saved
Stop ==
    /\ loop.pc \in {"sleep", "get_server", "cleanup"}
    /\ loop' = [pc |-> "stopped", now |-> 0, wakeAt |-> 0, queue |-> <<>>, cur |-> "none",
                due |-> {}, fired |-> <<>>, afterLoad |-> FALSE]
    /\ att' = IF loop.pc = "sleep" THEN att
              ELSE [att EXCEPT !.how = "cancelled", !.at = now]
    /\ tasks' = Collect(tasks, loop')
    /\ store' = SaveTasks(tasks')
    /\ UNCHANGED <<now, delay, reply, req, breakerVars, runVars, servers>>

\* start() on a stopped scheduler: the registry is loaded from the file and the
\* loop is created, about to make its first pass
Start ==
    /\ loop.pc = "stopped"
    /\ tasks' = LoadTasks(store, tasks, now)
    /\ loop' = [loop EXCEPT !.pc = "sleep", !.wakeAt = now, !.afterLoad = TRUE]
    /\ att' = [NoAttempt EXCEPT !.how = "loaded"]
    /\ UNCHANGED <<now, delay, reply, req, breakerVars, runVars, servers, store>>

NextSched ==
    \/ SchedTick
    \/ \E id \in TaskIds, cfg \in TaskConfigs : AddTask(id, cfg) /\ UNCHANGED reply
    \/ \E id \in TaskIds : RemoveTask(id) /\ UNCHANGED reply
    \/ \E id \in TaskIds, flag \in BOOLEAN : SetEnabled(id, flag) /\ UNCHANGED reply
    \/ \E sid \in ServerIds : DeleteServer(sid)
    \/ LoopPass
    \/ LoopContinue
    \/ ExecGetServer
    \/ \E o \in {"return", "raise"} : ExecCleanup(o)

SpecSched == InitSched /\ [][NextSched]_vars

\* ------------------------------------------- the scheduler stopped and started
\* The scheduler with stop() and start() called on it, its servers staying.
NextRestart ==
    \/ SchedTick
    \/ \E id \in TaskIds, cfg \in TaskConfigs : AddTask(id, cfg) /\ UNCHANGED reply
    \/ \E id \in TaskIds, flag \in BOOLEAN : SetEnabled(id, flag) /\ UNCHANGED reply
    \/ LoopPass
    \/ LoopContinue
    \/ ExecGetServer
    \/ \E o \in {"return", "raise"} : ExecCleanup(o)
    \/ Stop
    \/ Start

SpecRestart == InitSched /\ [][NextRestart]_vars

(***************************************************************************)
(* SpecRegistry: the registry of a scheduler whose loop is stopped, with    *)
(* every call of add_task, remove_task, enable_task and disable_task       *)
(* recorded together with the value it returns.                            *)
(***************************************************************************)
\* the record of one call: turn alternates so that two equal calls in a row differ
Replied(op, ret) == [op |-> op, ret |-> ret, turn |-> 1 - reply.turn]

\* add_task returns False when the server is not found, True after the save
AddTaskCall(id, cfg) ==
    /\ AddTask(id, cfg)
    /\ reply' = Replied("add_task", cfg.server_id \in servers)

\* remove_task returns True exactly when the id was in self.tasks
RemoveTaskCall(id) ==
    /\ RemoveTask(id)
    /\ reply' = Replied("remove_task", tasks[id].reg = "registered")

\* enable_task and disable_task return True exactly when the id was in self.tasks
SetEnabledCall(id, flag) ==
    /\ SetEnabled(id, flag)
    /\ reply' = Replied(IF flag THEN "enable_task" ELSE "disable_task",
                        tasks[id].reg = "registered")

NextRegistry ==
    \/ SchedTick
    \/ \E id \in TaskIds, cfg \in TaskConfigs : AddTaskCall(id, cfg)
    \/ \E id \in TaskIds : RemoveTaskCall(id)
    \/ \E id \in TaskIds, flag \in BOOLEAN : SetEnabledCall(id, flag)
    \/ \E sid \in ServerIds : DeleteServer(sid)

\* a scheduler constructed and not started: running is False, no task is registered
InitRegistry ==
    /\ now = 0
    /\ cb = NewBreaker(RunThreshold, RunTimeout)
    /\ call = NoCall
    /\ streak = 0
    /\ IdleRun
    /\ tasks = [id \in TaskIds |-> NoTask]
    /\ servers = ServerIds
    /\ loop = [pc |-> "stopped", now |-> 0, wakeAt |-> 0, queue |-> <<>>, cur |-> "none",
               due |-> {}, fired |-> <<>>, afterLoad |-> FALSE]
    /\ att = NoAttempt
    /\ store = <<>>
    /\ IdleDelay
    /\ IdleReply
    /\ IdleRequest

SpecRegistry == InitRegistry /\ [][NextRegistry]_vars

(***************************************************************************)
(* SpecRequest: one call of ApiRequest._request against a server that      *)
(* answers every attempt with any status and body, or with a network       *)
(* error.                                                                  *)
(***************************************************************************)
MaxRetries == 3

Statuses == {200, 201, 202, 204, 301, 400, 404, 429, 500, 501, 502, 503, 504}
Bodies == {"empty", "object", "empty_object", "not_json"}

\* what one attempt can end with: a response, one of the three network errors the
\* code names, or any other exception of the client
Responses ==
    [kind : {"http"}, status : Statuses, body : Bodies]
        \cup [kind : {"timeout", "connect", "read", "other"}, status : {0}, body : {"none"}]

\* the statuses of line 95 changed to every status that raises
RetryStatusesAny == Statuses \ {200, 201, 202, 204}

\* the statuses after which the HTTPStatusError branch retries
RetryStatuses == {429, 500, 502, 503, 504}

\* response.raise_for_status(): raises for 4xx and 5xx; for a redirect it depends on the
\* version of the client library, strict chooses
RaisesForStatus(status, strict) ==
    \/ status >= 400
    \/ status >= 300 /\ strict

\* what the body of the for loop does with the response r of one attempt: "continue",
\* or the value returned; fits tells whether response_model accepts the JSON
Outcome(r, attempt, max_retries, response_model, strict, fits) ==
    IF r.kind \in {"timeout", "connect", "read"}
    THEN IF attempt < max_retries THEN "continue" ELSE "False"
    ELSE IF r.kind = "other" THEN "False"
    ELSE IF RaisesForStatus(r.status, strict)
    THEN IF r.status \in RetryStatuses /\ attempt < max_retries THEN "continue" ELSE "False"
    ELSE IF r.body = "empty"
    THEN IF r.status \in {200, 201, 204} THEN "True" ELSE "False"
    ELSE IF r.body = "not_json" THEN "False"
    ELSE IF response_model THEN (IF fits THEN "model" ELSE "False")
    ELSE IF r.body = "empty_object" THEN "True" ELSE "json"

\* the call is made: headers and payload are prepared, the loop starts at attempt 0
InitRequest ==
    /\ now = 0
    /\ cb = NewBreaker(RunThreshold, RunTimeout)
    /\ call = NoCall
    /\ streak = 0
    /\ IdleRun
    /\ IdleSched
    /\ IdleDelay
    /\ IdleReply
    /\ \E m \in 0..MaxRetries, rm \in BOOLEAN :
          req = [pc |-> "send", max_retries |-> m, response_model |-> rm, attempt |-> 0,
                 sent |-> 0, slept |-> 0, last |-> NoResponse, ret |-> "none"]

\* the sleep before a retry
Backoff ==
    /\ req.pc = "sleep"
    /\ req' = [req EXCEPT !.pc = "send", !.slept = @ + 1]
    /\ UNCHANGED <<now, delay, reply, breakerVars, runVars, schedVars>>

\* one attempt: the request is sent and its response handled
Attempt(r, strict, fits) ==
    /\ req.pc = "send"
    /\ LET o == Outcome(r, req.attempt, req.max_retries, req.response_model, strict, fits)
       IN  req' = IF o = "continue"
                  THEN IF req.attempt + 1 <= req.max_retries
                       THEN [req EXCEPT !.pc = "sleep", !.attempt = @ + 1, !.sent = @ + 1,
                                        !.last = r]
                       ELSE [req EXCEPT !.pc = "returned", !.sent = @ + 1, !.last = r,
                                        !.ret = "False"]
                  ELSE [req EXCEPT !.pc = "returned", !.sent = @ + 1, !.last = r, !.ret = o]
    /\ UNCHANGED <<now, delay, reply, breakerVars, runVars, schedVars>>

NextRequest ==
    \/ Backoff
    \/ \E r \in Responses, strict \in BOOLEAN, fits \in BOOLEAN : Attempt(r, strict, fits)

\* every attempt ends: the client has a timeout, and a sleep returns
SpecRequest == InitRequest /\ [][NextRequest]_vars /\ WF_vars(NextRequest)

\* ================================================================ claims
PlannedEntries == {i \in 1..Len(log.examined) : log.examined[i].planned}
SkippedEntries == {i \in 1..Len(log.examined) : ~log.examined[i].planned}

\* C1: when a bulk run (assignment or cleanup) has returned, successful + failed
\* equals the number of operations that were planned as APPLY in that run.
C1_SuccessfulPlusFailedIsPlanned ==
    pc = "done" => results.successful + results.failed = Cardinality(PlannedEntries)

\* a run returned with a success, several failures and an operation the open
\* breaker rejected without a remote call
C1_Witness ==
    /\ pc = "done"
    /\ results.successful >= 1
    /\ results.failed >= 2
    /\ Len(log.calls) < Cardinality(PlannedEntries)

\* C2: when an assignment run has returned, total_operations + skipped equals
\* (distinct users the listings returned) x (service ids of the intent).
C2_OperationsPlusSkippedIsPairs ==
    (pc = "done" /\ mode = "assign") =>
        results.operations + results.skipped
            = Cardinality(log.returned) * Len(intent.service_ids)

\* an assignment run over two admins, two pages and two service ids returned with
\* both operations and skipped pairs
C2_Witness ==
    /\ pc = "done"
    /\ mode = "assign"
    /\ Len(intent.admins) = 2
    /\ Len(intent.service_ids) = 2
    /\ Cardinality(log.returned) > PageSize
    /\ results.operations > 0
    /\ results.skipped > 0

\* C3 (as claimed): when a cleanup run has returned, (users planned for deletion)
\* + skipped equals total_users.
C3_PlannedPlusSkippedIsUsers ==
    (pc = "done" /\ mode = "cleanup") =>
        Cardinality(PlannedEntries) + results.skipped = results.total_users

\* C4: a username returned by several listings of a run is counted once in
\* total_users and is examined at most once per target, under the first admin that
\* returned it.
C4_EachUserOnce ==
    /\ pc = "done" => results.total_users = Cardinality(log.returned)
    /\ \A i, j \in 1..Len(log.examined) :
         (log.examined[i].user = log.examined[j].user
            /\ log.examined[i].service = log.examined[j].service) => i = j
    /\ \A i \in 1..Len(log.examined) :
         <<log.examined[i].user, log.examined[i].admin>> \in log.first

\* a run returned in which a user that a second admin's listing returned again got
\* an operation
C4_Witness ==
    /\ pc = "done"
    /\ \E i \in PlannedEntries : log.examined[i].user \in log.repeats

\* C5: after failure_threshold consecutive record_failure() calls, can_execute()
\* returns false as long as recovery_timeout has not elapsed since the last failure.
C5_OpenRefusesUntilTimeout ==
    (/\ call.op = "can_execute"
     /\ streak >= cb.failure_threshold
     /\ call.at - cb.last_failure_time <= cb.recovery_timeout) => ~call.ret

\* can_execute() refused some time after the failure that opened the breaker
C5_Witness ==
    /\ call.op = "can_execute"
    /\ streak >= cb.failure_threshold
    /\ call.at > cb.last_failure_time
    /\ call.at - cb.last_failure_time <= cb.recovery_timeout
    /\ ~call.ret

\* C6 (as claimed): while a probe is outstanding (the breaker is HALF_OPEN),
\* can_execute() returns false.
C6_ProbeIsExclusive ==
    (call.op = "can_execute" /\ call.pre = "HALF_OPEN") => ~call.ret

\* C6 (amended): once recovery_timeout has elapsed while OPEN, can_execute()
\* returns true and half-opens the breaker; before that it returns false; and
\* every can_execute() made while HALF_OPEN returns true and leaves it HALF_OPEN.
C6_ProbeNotExclusive ==
    call.op = "can_execute" =>
        /\ (call.pre = "OPEN" /\ call.at - cb.last_failure_time > cb.recovery_timeout)
              => (call.ret /\ cb.state = "HALF_OPEN")
        /\ (call.pre = "OPEN" /\ call.at - cb.last_failure_time <= cb.recovery_timeout)
              => (~call.ret /\ cb.state = "OPEN")
        /\ call.pre = "HALF_OPEN" => (call.ret /\ cb.state = "HALF_OPEN")

\* a second can_execute() was granted while the probe was outstanding
C6_Witness ==
    /\ call.op = "can_execute"
    /\ call.pre = "HALF_OPEN"
    /\ call.ret

\* C7: in HALF_OPEN, record_success() closes the breaker with failure_count = 0 and
\* one record_failure() re-opens it with the time of that failure.
C7_HalfOpenOutcome ==
    /\ (call.op = "record_success" /\ call.pre = "HALF_OPEN")
          => (cb.state = "CLOSED" /\ cb.failure_count = 0)
    /\ (call.op = "record_failure" /\ call.pre = "HALF_OPEN")
          => (cb.state = "OPEN" /\ cb.last_failure_time = call.at)

\* a probe failed and re-opened the breaker
C7_Witness ==
    /\ call.op = "record_failure"
    /\ call.pre = "HALF_OPEN"
    /\ cb.state = "OPEN"
    /\ cb.failure_count > cb.failure_threshold

\* C8: the tasks admitted by the semaphore and not yet finished never outnumber
\* concurrent_limit.
C8_InFlightBounded ==
    Cardinality(InFlight) <= mgr.concurrent_limit

\* concurrent_limit tasks are in flight while another waits for the semaphore
C8_Witness ==
    /\ mgr.concurrent_limit = 2
    /\ Cardinality(InFlight) = 2
    /\ Waiting # {}

\* C9: a pair of an assignment batch gets a task iff (ADD and the service is not in
\* the user's set) or (REMOVE and it is); remote calls are made for such pairs
\* only, and the other pairs are the ones counted in skipped.
C9_PlannedIffNeeded ==
    mode = "assign" =>
        /\ \A i \in 1..Len(log.examined) :
             log.examined[i].planned <=>
                \/ intent.action_type = ADD_CONFIG /\ ~log.examined[i].had
                \/ intent.action_type = DELETE_CONFIG /\ log.examined[i].had
        /\ \A k \in 1..Len(log.calls) : \E i \in PlannedEntries :
             /\ log.examined[i].user = log.calls[k].user
             /\ log.examined[i].service = log.calls[k].service
        /\ pc = "done" => results.skipped = Cardinality(SkippedEntries)

\* a REMOVE run returned that planned some pairs, skipped others and made calls
C9_Witness ==
    /\ pc = "done"
    /\ mode = "assign"
    /\ intent.action_type = DELETE_CONFIG
    /\ PlannedEntries # {}
    /\ SkippedEntries # {}
    /\ log.calls # <<>>

\* C10 (as claimed, in its mildest form): when the first run reported no failed
\* operation, the second run of the same intent plans nothing.
C10_SecondRunPlansNothing ==
    (run >= 2 /\ prev.failed = 0) => PlannedEntries = {}

\* the tag names of the first panel type with the field test that gives each
C11_TagHolds(f, tag) ==
    CASE tag = "inactive"   -> ~f.activated
      [] tag = "expired"    -> f.expired
      [] tag = "limited"    -> f.data_limit_reached
      [] tag = "disabled"   -> ~f.enabled
      [] tag = "not_active" -> ~f.is_active
      [] OTHER              -> FALSE

\* C11: in a cleanup run a user is planned for deletion (and a remove_user call can
\* be made for it) iff one of its status tags is in the filter set: on Marzneshin
\* the tags inactive / expired / limited / disabled / not_active, on Marzban the
\* user's status value. A user with activated=false, expired=true, enabled=true is
\* planned under {expired} and not under {disabled}.
C11_DeletedIffTagsMatch ==
    (mode = "cleanup" /\ intent.server_type \in ServerTypes) =>
        /\ \A i \in 1..Len(log.examined) :
             LET f == Fields[log.examined[i].user]
             IN  /\ log.examined[i].planned <=>
                      IF intent.server_type = MARZNESHIN
                      THEN \E tag \in intent.status_filters : C11_TagHolds(f, tag)
                      ELSE f.status \in intent.status_filters
                 /\ (intent.server_type = MARZNESHIN /\ ~f.activated /\ f.expired /\ f.enabled)
                      => /\ intent.status_filters = {"expired"} => log.examined[i].planned
                         /\ intent.status_filters = {"disabled"} => ~log.examined[i].planned
        /\ \A k \in 1..Len(log.calls) : \E i \in PlannedEntries :
             log.examined[i].user = log.calls[k].user

\* a Marzneshin cleanup under {disabled} returned: the expired, enabled user was left
\* alone and the disabled one was deleted
C11_Witness ==
    /\ pc = "done"
    /\ mode = "cleanup"
    /\ intent.server_type = MARZNESHIN
    /\ intent.status_filters = {"disabled"}
    /\ \E i \in SkippedEntries : log.examined[i].user = "u1"
    /\ \E i \in PlannedEntries : log.examined[i].user = "u3"
    /\ ~panel["u3"].exists

\* C12 (as claimed): a cleanup run on a server whose type is neither Marzneshin nor
\* Marzban deletes no user on the strength of another type's status mapping and
\* returns with an error reported.
C12_UnsupportedTypeIsError ==
    (mode = "cleanup" /\ intent.server_type \notin ServerTypes) =>
        /\ log.calls = <<>>
        /\ pc = "done" => results.errors # <<>>

\* the (user, target) pairs for which a remote mutation was issued
CalledPairs == {log.calls[k] : k \in 1..Len(log.calls)}

\* C13: an operation that finds can_execute() false when it is admitted returns
\* "failed" without a remote call: no modify_user / remove_user is issued for it,
\* and the failed count of the returned run is the refused operations plus the
\* remote calls that failed.
C13_RefusedIsFailedWithoutCall ==
    /\ log.refused \cap CalledPairs = {}
    /\ \A i \in 1..Len(ops) :
         [user |-> ops[i].user, service |-> ops[i].service] \in log.refused
            => (ops[i].pc = "done" /\ ops[i].ret = "failed")
    /\ pc = "done" => results.failed = Cardinality(log.refused) + log.failures

\* a run returned in which the breaker refused operations and others reached the panel
C13_Witness ==
    /\ pc = "done"
    /\ log.refused # {}
    /\ log.failures >= 1
    /\ results.successful >= 1

\* C14 (as claimed): every step in which the remote modify of an assignment
\* operation fails (falsy result or exception) leaves the user object's service ids
\* equal to the copy the operation took before changing them.
C14_FailedModifyRestores ==
    [][\A i \in 1..Len(ops) :
         (mode = "assign" /\ ops[i].pc = "call" /\ ops'[i].pc = "done"
            /\ ops'[i].ret = "failed")
         => userObjs'[ops[i].user] = ops[i].original]_vars

\* the (user, target) pairs that were planned
PlannedPairSet ==
    {[user |-> log.examined[i].user, service |-> log.examined[i].service] :
        i \in PlannedEntries}

\* C15: a remote mutation that returns a falsy value or raises ends as a "failed"
\* task result and never as an exception leaving the batch or the run; the run that
\* returned went through all its admins, left no planned operation unattempted
\* (each was sent or refused by the breaker) and its aggregate counts every one.
C15_FailuresStayInside ==
    /\ pc # "raised"
    /\ \A i \in 1..Len(ops) : ops[i].pc = "done" => ops[i].ret \in {"success", "failed"}
    /\ pc = "done" =>
         /\ adminIdx = Len(intent.admins)
         /\ PlannedPairSet = CalledPairs \cup log.refused
         /\ results.failed >= log.failures
         /\ results.successful = Len(log.calls) - log.failures

\* a run over two admins returned after a raised and a falsy remote call, with a
\* later operation successful
C15_Witness ==
    /\ pc = "done"
    /\ Len(intent.admins) = 2
    /\ log.raised >= 1
    /\ log.failures > log.raised
    /\ results.successful >= 1

\* C16 (as claimed): when the run has returned, every remote call that raised has a
\* message in the errors list of the aggregate, up to three of them.
C16_RaisedIsInErrors ==
    pc = "done" => Len(results.errors) = Min(log.raised, 3)

\* the last execution attempt is over and its task object still exists
AttemptEnded(hows) == att.how \in hows /\ tasks[att.id].reg # "gone"

\* C17: after an execution that ended at time T2, by process_bulk_cleanup returning
\* or raising, the task's next_run is T2 + interval_hours, whatever next_run was.
C17_NextRunIsEndPlusInterval ==
    AttemptEnded({"ok", "raised"}) =>
        tasks[att.id].next_run = att.at + Hours(tasks[att.id].interval_hours)

\* an overdue execution ended by an exception and next_run left the grid of
\* created_at + k * interval
C17_Witness ==
    /\ AttemptEnded({"raised"})
    /\ tasks[att.id].next_run = att.at + Hours(tasks[att.id].interval_hours)
    /\ (tasks[att.id].next_run - tasks[att.id].created_at)
          % Hours(tasks[att.id].interval_hours) # 0

\* C18 (as claimed): after every execution attempt, also one that raised and one
\* that found no server, the task's next_run is later than the end of the attempt.
C18_AttemptAdvancesNextRun ==
    AttemptEnded({"ok", "raised", "no_server"}) => tasks[att.id].next_run > att.at

\* C19 (as claimed): every task in the registry that is not being executed has
\* next_run == (last_run if it has run, else created_at) + interval_hours.
C19_NextRunFollowsLastRun ==
    \A id \in Registered(tasks) :
        id # loop.cur =>
            tasks[id].next_run
                = (IF tasks[id].last_run # NoTime THEN tasks[id].last_run
                   ELSE tasks[id].created_at) + Hours(tasks[id].interval_hours)

\* C20: a cleanup run is started for a task only if the task was enabled and its
\* next_run had passed when the loop came to it, and with the server, admins and
\* status filters the task was created with.
C20_RunOnlyWhenDue ==
    att.how \in {"running", "ok", "raised"} =>
        /\ att.enabled
        /\ att.elapsed
        /\ \E cfg \in TaskConfigs :
             att.args = <<cfg.server_id, cfg.admin_usernames, cfg.status_filters>>
        /\ tasks[att.id].reg # "gone" =>
             att.args = <<tasks[att.id].server_id, tasks[att.id].admin_usernames,
                          tasks[att.id].status_filters>>

\* the second task of the registry is run in a pass that left alone the first, which
\* is overdue but disabled
C20_Witness ==
    /\ att.how = "running"
    /\ \E id \in Registered(tasks) :
         /\ id # att.id
         /\ tasks[att.id].reg = "registered"
         /\ tasks[id].pos < tasks[att.id].pos
         /\ ~tasks[id].enabled
         /\ tasks[id].next_run <= loop.now
         /\ tasks[id].server_id # tasks[att.id].server_id

\* C29 (as claimed): when a cleanup run has returned, every user that the panel
\* listed under one of the selected admins when the run started has been examined.
C29_NoUserMissed ==
    (pc = "done" /\ mode = "cleanup") =>
        \A u \in Users :
            Owners[u] \cap SeqSet(intent.admins) # {} => u \in log.returned

\* C30 (as claimed): when all tasks of an assignment batch have returned and no
\* remote call raised, a targeted service id is in the user object's set iff
\* (ADD and its operation returned success) or (REMOVE and it did not).
C30_BatchEndMatchesSuccesses ==
    (mode = "assign" /\ pc = "exec" /\ log.raised = 0
        /\ \A i \in 1..Len(ops) : ops[i].pc = "done") =>
        \A i \in 1..Len(ops) :
            ops[i].service \in userObjs[ops[i].user]
                <=> IF intent.action_type = ADD_CONFIG
                    THEN ops[i].ret = "success"
                    ELSE ops[i].ret # "success"

\* the position of an admin in the list the run was given
AdminPos(a) == CHOOSE k \in 1..Len(intent.admins) : intent.admins[k] = a

\* the planned or skipped pairs the batch loop has gone through for an admin
ExaminedFor(a) == {i \in 1..Len(log.examined) : log.examined[i].admin = a}

\* C24: in a run that was given a progress callback, the callback has been called
\* once per batch the loop has gone through (the batch in flight excepted), at
\* most one call is awaiting its return, the calls are in the order of the admins,
\* and while a call is awaited its arguments are the admin being processed and
\* that admin's counters so far with total_users the users processed so far.
C24_SinkOncePerBatchInOrder ==
    intent.progress_callback =>
        /\ log.sinkActive \in {0, 1}
        /\ log.sinkActive = 1 <=> pc = "sink"
        /\ Len(log.sink) = IF pc = "exec" \/ pc = "raised" THEN log.batches - 1
                           ELSE log.batches
        /\ \A i, j \in 1..Len(log.sink) :
              i < j => AdminPos(log.sink[i].admin) <= AdminPos(log.sink[j].admin)
        /\ pc = "sink" =>
              LET last == log.sink[Len(log.sink)]
              IN  /\ last.admin = intent.admins[adminIdx]
                  /\ last.counters.total_users = Cardinality(processed)
                  /\ last.counters.successful = adminRes.successful
                  /\ last.counters.failed = adminRes.failed
                  /\ last.counters.skipped = adminRes.skipped
                  /\ mode = "assign" =>
                        last.counters.operations + last.counters.skipped
                            = Cardinality(ExaminedFor(last.admin))

\* a callback is awaited for the second batch of the second admin at least
C24_Witness ==
    /\ pc = "sink"
    /\ adminIdx = 2
    /\ Len(log.sink) >= 3
    /\ log.sink[1].admin = intent.admins[1]
    /\ log.sink[Len(log.sink)].counters.successful > 0

\* C25 (as claimed): a progress callback that raises does not end the run; the run
\* is never left without its aggregate while no remote call raised and no page
\* fetch failed.
C25_SinkFailureSwallowed ==
    (intent.progress_callback /\ log.fetchFailed = {}) => pc # "aborted"

\* C26 (as claimed): a failed page fetch ends only its admin's pages; the run is
\* never left without its aggregate while the callbacks returned.
C26_FetchFailureSkipsAdminOnly ==
    (log.fetchFailed # {} /\ log.sinkActive = 0) => pc # "aborted"

\* how many times the pass has fired a task
FiredCount(lp, id) == Cardinality({i \in 1..Len(lp.fired) : lp.fired[i] = id})

\* C21: when a pass of the running loop ends, every task that was registered,
\* enabled and past its next_run when the pass began (and was not disabled before
\* the loop reached it) has been handed to _execute_task exactly once in the pass,
\* and no task is ever handed over twice in one pass; this includes the first
\* pass after start() has loaded the registry.
C21_OverdueFiredOncePerPass ==
    [][/\ (loop.pc = "scan" /\ loop'.pc = "sleep") =>
              \A id \in loop.due : FiredCount(loop, id) = 1
       /\ (loop.pc = "sleep" /\ loop'.pc = "sleep" /\ loop'.wakeAt > loop.wakeAt) =>
              DueAt(tasks, now) = {}
       /\ \A id \in TaskIds : FiredCount(loop', id) <= 1]_vars

\* in the first pass after a restart, a task overdue by a whole interval or more
\* is executing, fired once
C21_Witness ==
    /\ loop.pc = "cleanup"
    /\ loop.afterLoad
    /\ loop.cur \in loop.due
    /\ loop.fired = <<loop.cur>>
    /\ loop.now >= tasks[loop.cur].next_run + Hours(tasks[loop.cur].interval_hours)

\* C22: in every state (each interactive call and each execution changes the
\* registry and saves it without yielding in between) the file holds, in the
\* registry's order, one dict per registered task, and loading each dict gives
\* back the task as it is in memory.
C22_StoreIsRegistry ==
    /\ Len(store) = Len(Items(tasks))
    /\ \A i \in 1..Len(store) :
          /\ store[i].id = Items(tasks)[i]
          /\ FromDict(store[i], tasks[store[i].id].pos, now) = tasks[store[i].id]

\* a task was removed, the other one has run, is disabled, and the file has it
C22_Witness ==
    /\ \E id \in TaskIds : tasks[id].reg = "gone"
    /\ \E id \in Registered(tasks) : tasks[id].last_run # NoTime /\ ~tasks[id].enabled
    /\ Len(store) = 1
    /\ att.how = "ok"

\* C23: from_dict(to_dict(t)), whenever it is evaluated, is t for every task of the
\* registry, and a start() after a stop() leaves the registry with the same tasks,
\* field for field and in the same order, as the stopped scheduler had saved.
C23_RoundTripAndReload ==
    /\ [](\A id \in Registered(tasks), t \in 0..MaxSchedTime :
             FromDict(ToDict(id, tasks[id]), tasks[id].pos, t) = tasks[id])
    /\ [][(loop.pc = "stopped" /\ loop'.pc # "stopped") =>
             /\ Items(tasks') = Items(tasks)
             /\ \A id \in Registered(tasks) :
                   tasks'[id] = [tasks[id] EXCEPT !.pos = tasks'[id].pos]
             /\ SaveTasks(tasks') = store]_vars

\* the registry was just loaded; one task has never run and one has
C23_Witness ==
    /\ att.how = "loaded"
    /\ \E id \in Registered(tasks) : tasks[id].last_run = NoTime
    /\ \E id \in Registered(tasks) :
          tasks[id].last_run # NoTime /\ tasks[id].last_run % TicksPerHour # 0

\* C27 (as claimed): when the loop has ended after a stop(), the last execution
\* that had started its cleanup run has finished (returned or raised).
C27_StopLetsExecutionFinish ==
    (loop.pc = "stopped" /\ att.args # <<>>) => att.how \in {"ok", "raised"}

\* C28 (as claimed): while a cleanup run has been in flight for two sleep periods
\* or more and another registered, enabled task with an existing server is due,
\* the loop's latest pass began at most one sleep period ago.
C28_RunDoesNotBlockLoop ==
    (/\ loop.pc = "cleanup"
     /\ now - att.at >= 2
     /\ \E id \in Registered(tasks) \ {loop.cur} :
           /\ tasks[id].enabled
           /\ tasks[id].server_id \in servers
           /\ tasks[id].next_run # NoTime /\ now >= tasks[id].next_run)
        => now - loop.now <= 1

\* C31 (as claimed): in a bulk run, a step taken while the breaker is OPEN and its
\* recovery_timeout has not elapsed since the last failure leaves it OPEN, whatever
\* call completes in that step.
C31_OpenStaysOpenUntilTimeout ==
    [][(cb.state = "OPEN" /\ ~RecoveryElapsed(cb, now')) => cb'.state = "OPEN"]_vars

\* C32 (as claimed): whenever the loop hands a task to _execute_task, the task is
\* in the registry: no remove_task has returned True for it.
C32_RemovedNeverExecuted ==
    [][(loop'.cur # "none" /\ loop'.cur # loop.cur) =>
          tasks[loop'.cur].reg = "registered"]_vars

\* C33 (as claimed): the tasks gathered by one batch are at most batch_size.
C33_OpsAtMostBatchSize ==
    pc = "exec" => Len(ops) <= mgr.batch_size

\* the users the tasks of the batch in flight are about
BatchUsers == {ops[i].user : i \in 1..Len(ops)}

\* C33 (amended): a batch holds at most batch_size users; the tasks it gathers
\* are at most one per user and service id in an assignment run, batch_size times
\* the number of service ids, and at most one per user in a cleanup run.
C33_UsersAtMostBatchSize ==
    pc = "exec" =>
        /\ Cardinality(BatchUsers) <= mgr.batch_size
        /\ Len(ops) <= mgr.batch_size * (IF mode = "assign" THEN Len(intent.service_ids)
                                         ELSE 1)

\* a batch of batch_size users with more tasks than batch_size
C33_Witness ==
    /\ pc = "exec"
    /\ mode = "assign"
    /\ mgr.batch_size = MaxBatchSize
    /\ Cardinality(BatchUsers) = mgr.batch_size
    /\ Len(ops) > mgr.batch_size

\* C34 (as claimed): rate_limit_delay is never below its floor nor above its
\* ceiling.
C34_DelayWithinFloorAndCeiling ==
    /\ delay.rate_limit_delay >= DelayFloor
    /\ delay.rate_limit_delay <= DelayCeiling

\* C35: on an event loop that keeps running ready coroutines, with remote calls
\* that each return or raise, a bulk run eventually returns.
C35_RunTerminates == <>(pc = "done")

\* a run has returned in which the open breaker refused operations
C35_Witness ==
    /\ pc = "done"
    /\ log.refused # {}
    /\ cb.state = "OPEN"

\* C36: in every state of a breaker whose failure_threshold is at least 1, CLOSED
\* goes with failure_count < failure_threshold, and OPEN or HALF_OPEN goes with
\* failure_count >= failure_threshold and a last_failure_time that is set.
C36_StateMatchesFailureCount ==
    cb.failure_threshold >= 1 =>
        /\ cb.state \in {"CLOSED", "OPEN", "HALF_OPEN"}
        /\ cb.state = "CLOSED" => cb.failure_count < cb.failure_threshold
        /\ cb.state \in {"OPEN", "HALF_OPEN"} =>
              /\ cb.failure_count >= cb.failure_threshold
              /\ cb.last_failure_time # NoTime

\* a breaker with the largest threshold has opened and half-opened
C36_Witness ==
    /\ cb.state = "HALF_OPEN"
    /\ cb.failure_threshold = MaxThreshold
    /\ cb.failure_count >= cb.failure_threshold
    /\ cb.last_failure_time # NoTime

\* C37: a step in which a task goes from waiting to done, which is a task the
\* breaker refused, leaves failure_count, last_failure_time and state as they were.
C37_RefusalLeavesBreaker ==
    [][(\E i \in 1..Len(ops) :
           /\ ops[i].pc = "wait"
           /\ i <= Len(ops') /\ ops'[i].pc = "done")
        => /\ cb'.failure_count = cb.failure_count
           /\ cb'.last_failure_time = cb.last_failure_time
           /\ cb'.state = cb.state]_vars

\* an operation was refused some time after the failure that opened the breaker,
\* and the breaker still carries that failure's time
C37_Witness ==
    /\ cb.state = "OPEN"
    /\ now > cb.last_failure_time
    /\ \E i \in 1..Len(ops) :
          /\ ops[i].pc = "done" /\ ops[i].ret = "failed"
          /\ [user |-> ops[i].user, service |-> ops[i].service] \in log.refused
          /\ \A c \in 1..Len(log.calls) : log.calls[c].user # ops[i].user

\* the fields of a task object other than its enabled flag
SameButEnabled(old, new) == new = [old EXCEPT !.enabled = new.enabled]

\* the loop is leaving _execute_task for task id
Firing(id) == loop.cur = id /\ loop.pc \in {"get_server", "cleanup"}

C39_FalseLeavesRegistry ==
    [][(reply'.turn # reply.turn /\ ~reply'.ret) => (tasks' = tasks /\ store' = store)]_vars

\* add_task for a missing server has returned False while a task is registered and saved
C39_Witness ==
    /\ reply.op = "add_task"
    /\ ~reply.ret
    /\ Registered(tasks) # {}
    /\ store # <<>>
    /\ \E id \in TaskIds : tasks[id].reg = "absent"

\* the failures the code may retry after: 429 or a 5xx status, a timeout, a connect or a
\* read error
Transient(r) ==
    \/ r.kind \in {"timeout", "connect", "read"}
    \/ r.kind = "http" /\ (r.status = 429 \/ r.status >= 500)

\* C40: one request makes at most max_retries + 1 attempts, makes a further attempt only
\* after a transient failure, and ends by returning a value, which is False when the
\* last attempt failed
C40_BoundedRetriesThenValue ==
    /\ [](/\ req.sent <= req.max_retries + 1
          /\ req.pc \in {"idle", "send", "sleep", "returned"}
          /\ req.pc = "returned" =>
                /\ req.ret \in {"True", "False", "model", "json"}
                /\ (req.last.kind # "http" \/ req.last.status >= 400) => req.ret = "False")
    /\ [][(req'.sent > req.sent /\ req.sent > 0) => Transient(req.last)]_vars
    /\ <>(req.pc = "returned")

\* every attempt was used on transient failures and the request returned False
C40_Witness ==
    /\ req.pc = "returned"
    /\ req.max_retries = MaxRetries
    /\ req.sent = req.max_retries + 1
    /\ req.slept = req.max_retries
    /\ Transient(req.last)
    /\ req.ret = "False"

====
